---------------------------- MODULE Spec2Model ----------------------------
(***************************************************************************)
(* Model of the platform layer of legaming_rs (src/src/platform.rs) and of *)
(* the bootstrap App::new (src/src/main.rs).                                *)
(*                                                                         *)
(* platform.rs holds no state of its own.  The state of the model is the   *)
(* world the two public functions act on: the build target, the window     *)
(* whose raw handles they read, the native surfaces the Vulkan driver has   *)
(* allocated, and a record of the last call (its result and the trace of   *)
(* routines, instance-handle lookups and native calls it made).            *)
(*                                                                         *)
(* Spec calls the two public functions in any order on `window` and on     *)
(* the windows of OtherWindows.                                            *)
(* SpecApp runs App::new.  Definitions marked "Variant" are the code with  *)
(* one slip in it; they are used to see that a property tells the code     *)
(* from the slip.                                                          *)
(***************************************************************************)
EXTENDS Integers, Sequences, FiniteSets, TLC

VARIABLES
    target,      \* "windows" | "other": the cfg(windows) build switch
    window,      \* the winit Window: its raw window and display handle
    surfaces,    \* native surface handles allocated by the driver so far
    halted,      \* TRUE once a panic has ended the process
    call,        \* record of the last platform call and its trace
    memo,        \* what get_required_instance_extensions returned on `window`
                 \* so far, and whether a surface existed at the time
    pc,          \* App::new: position in the bootstrap
    required_extensions, \* App::new: local `required_extensions`
    instance,    \* App::new: the created instance and its enabled extensions
    log          \* App::new: the platform / instance calls made, in order

vars == <<target, window, surfaces, halted, call, memo,
          pc, required_extensions, instance, log>>

---------------------------------------------------------------------------
(* Bounds of the model *)
MaxPtr == 2        \* pointer-like handle fields range over 1..MaxPtr
MaxId == 2         \* integer window identifiers range over 1..MaxId
MaxSurfaces == 2   \* the driver hands out surface handles 1..MaxSurfaces

NULL == 0          \* std::ptr::null_mut()

Ptrs == 1..MaxPtr
Ids == 1..MaxId

(* Option<T> *)
None == [some |-> FALSE, v |-> 0]
Some(x) == [some |-> TRUE, v |-> x]
OptionOf(S) == {None} \cup {Some(x) : x \in S}

(* raw_window_handle::RawWindowHandle: the four variants the code names and *)
(* two of the variants it does not name.                                    *)
RawWindowHandle ==
    {[tag |-> "Win32", hinstance |-> hi, hwnd |-> hw] :
        hi \in OptionOf(Ptrs), hw \in Ids}
    \cup {[tag |-> "Wayland", surface |-> s] : s \in Ptrs}
    \cup {[tag |-> "Xcb", window |-> w] : w \in Ids}
    \cup {[tag |-> "Xlib", window |-> w] : w \in Ids}
    \cup {[tag |-> "AppKit"], [tag |-> "WinRt"]}

(* raw_window_handle::RawDisplayHandle *)
RawDisplayHandle ==
    {[tag |-> "Windows"]}
    \cup {[tag |-> "Wayland", display |-> d] : d \in Ptrs}
    \cup {[tag |-> "Xcb", connection |-> c] : c \in OptionOf(Ptrs)}
    \cup {[tag |-> "Xlib", display |-> d] : d \in OptionOf(Ptrs)}
    \cup {[tag |-> "AppKit"]}

Windows == [window_handle : RawWindowHandle, display_handle : RawDisplayHandle]

(* Further windows the two functions may be called on: one whose pair is  *)
(* of a backend and one whose pair is of none.                            *)
OtherWindows ==
    {[window_handle |-> [tag |-> "Wayland", surface |-> 1],
      display_handle |-> [tag |-> "Wayland", display |-> 1]],
     [window_handle |-> [tag |-> "AppKit"],
      display_handle |-> [tag |-> "AppKit"]]}

(* ash::vk::Result error codes a surface creation call can report *)
VkErrorCodes == {-1, -2}

(* Outcome of one native vkCreate*SurfaceKHR call *)
NativeOk(h) == [ok |-> TRUE, surface |-> h, code |-> 0]
NativeErr(c) == [ok |-> FALSE, surface |-> 0, code |-> c]
NativeOutcomes(allocated) ==
    {NativeOk(h) : h \in (1..MaxSurfaces) \ allocated}
    \cup {NativeErr(c) : c \in VkErrorCodes}

(* Stands for the outcome of a native call that is never made *)
NotCalled == NativeErr(0)

(* ash extension names *)
Surface_name == "VK_KHR_surface"
Win32Surface_name == "VK_KHR_win32_surface"
WaylandSurface_name == "VK_KHR_wayland_surface"
XcbSurface_name == "VK_KHR_xcb_surface"
XlibSurface_name == "VK_KHR_xlib_surface"

(* anyhow::Result values of the two public functions, as one record shape *)
OkSurface(h) ==
    [status |-> "Ok", error |-> "none", code |-> 0, surface |-> h, extensions |-> <<>>]
OkExtensions(exts) ==
    [status |-> "Ok", error |-> "none", code |-> 0, surface |-> 0, extensions |-> exts]
ErrUnsupported ==
    [status |-> "Err", error |-> "Unsupported", code |-> 0, surface |-> 0, extensions |-> <<>>]
ErrVk(c) ==
    [status |-> "Err", error |-> "VkResult", code |-> c, surface |-> 0, extensions |-> <<>>]
ErrHandle ==
    [status |-> "Err", error |-> "HandleError", code |-> 0, surface |-> 0, extensions |-> <<>>]
Panicked ==
    [status |-> "Panic", error |-> "unimplemented", code |-> 0, surface |-> 0, extensions |-> <<>>]
NoResult ==
    [status |-> "None", error |-> "none", code |-> 0, surface |-> 0, extensions |-> <<>>]


---------------------------------------------------------------------------
(* platform.rs *)

(* What one backend routine did: its result, how many times it called      *)
(* get_hinstance, and the native calls it made (the create-info it built). *)
RoutineTrace(result, lookups, native) ==
    [result |-> result, lookups |-> lookups, native |-> native]

(* What one call of a public function did. `fetched` tells whether both    *)
(* window.window_handle()? and window.display_handle()? returned a handle. *)
CallTrace(fetched, result, routines, lookups, native) ==
    [fetched |-> fetched, result |-> result, routines |-> routines,
     lookups |-> lookups, native |-> native]

(* match surface_fn.create_*_surface(..) { Ok(value) => Ok(value),         *)
(*                                         Err(err) => Err(err.into()) }   *)
IntoResult(nat) ==
    IF nat.ok THEN OkSurface(nat.surface) ELSE ErrVk(nat.code)

(* Variant: the non-Windows stub returns a null handle instead of halting. *)
get_hinstance_NullStub(module) ==
    IF target = "windows"
    THEN [panic |-> FALSE, value |-> module]
    ELSE [panic |-> FALSE, value |-> NULL]

(* get_hinstance: GetModuleHandleA(null) under cfg(windows), unimplemented! *)
(* otherwise.  `module` is the handle the operating system returns.         *)
get_hinstance(module) ==
    IF target = "windows"
    THEN [panic |-> FALSE, value |-> module]
    ELSE [panic |-> TRUE, value |-> NULL]

(* Variant: map_or in place of map_or_else, so the fallback is evaluated   *)
(* eagerly, whether or not the handle carries an hinstance.               *)
create_win32_surface_EagerLookup(hinstance, hwnd, module, nat) ==
    LET fallback == get_hinstance(module)
        hinstance_value ==
            IF hinstance.some
            THEN [panic |-> fallback.panic, value |-> hinstance.v]
            ELSE fallback
        create_info == [fn |-> "vkCreateWin32SurfaceKHR",
                        hinstance |-> hinstance_value.value,
                        hwnd |-> hwnd]
    IN  IF hinstance_value.panic
        THEN RoutineTrace(Panicked, 1, <<>>)
        ELSE RoutineTrace(IntoResult(nat), 1, <<create_info>>)

create_win32_surface(hinstance, hwnd, module, nat) ==
    LET looked == ~hinstance.some
        hinstance_value ==
            IF hinstance.some
            THEN [panic |-> FALSE, value |-> hinstance.v]
            ELSE get_hinstance(module)
        hwnd_value == hwnd
        create_info == [fn |-> "vkCreateWin32SurfaceKHR",
                        hinstance |-> hinstance_value.value,
                        hwnd |-> hwnd_value]
    IN  IF hinstance_value.panic
        THEN RoutineTrace(Panicked, 1, <<>>)
        ELSE RoutineTrace(IntoResult(nat), IF looked THEN 1 ELSE 0,
                          <<create_info>>)

(* Variant: the two pointers are swapped in the create-info. *)
create_wayland_surface_Swapped(surface, display, nat) ==
    LET create_info == [fn |-> "vkCreateWaylandSurfaceKHR",
                        surface |-> display,
                        display |-> surface]
    IN  RoutineTrace(IntoResult(nat), 0, <<create_info>>)

create_wayland_surface(surface, display, nat) ==
    LET create_info == [fn |-> "vkCreateWaylandSurfaceKHR",
                        surface |-> surface,
                        display |-> display]
    IN  RoutineTrace(IntoResult(nat), 0, <<create_info>>)

(* Variant: every native failure is reported as ERROR_OUT_OF_HOST_MEMORY. *)
create_xcb_surface_TranslatedError(window_id, connection, nat) ==
    LET create_info == [fn |-> "vkCreateXcbSurfaceKHR",
                        window |-> window_id,
                        connection |-> IF connection.some THEN connection.v
                                       ELSE NULL]
    IN  RoutineTrace(IF nat.ok THEN OkSurface(nat.surface) ELSE ErrVk(-1),
                     0, <<create_info>>)

create_xcb_surface(window_id, connection, nat) ==
    LET create_info == [fn |-> "vkCreateXcbSurfaceKHR",
                        window |-> window_id,
                        connection |-> IF connection.some THEN connection.v
                                       ELSE NULL]
    IN  RoutineTrace(IntoResult(nat), 0, <<create_info>>)

(* The builder sets only `window`; `dpy` keeps the builder's default null. *)
create_xlib_surface(window_id, nat) ==
    LET create_info == [fn |-> "vkCreateXlibSurfaceKHR",
                        window |-> window_id,
                        dpy |-> NULL]
    IN  RoutineTrace(IntoResult(nat), 0, <<create_info>>)

(* One backend routine was entered: its trace, under the routine's name. *)
Dispatch(name, t) ==
    CallTrace(TRUE, t.result, <<name>>, t.lookups, t.native)

(* Variant: the Xlib arm matches on the window handle alone. *)
create_surface_XlibAnyDisplay(win, avail, module, nat) ==
    IF ~avail.window_handle \/ ~avail.display_handle
    THEN CallTrace(FALSE, ErrHandle, <<>>, 0, <<>>)
    ELSE LET window_handle == win.window_handle
             display_handle == win.display_handle
         IN  IF window_handle.tag = "Win32" /\ display_handle.tag = "Windows"
             THEN Dispatch("create_win32_surface",
                      create_win32_surface(window_handle.hinstance,
                                           window_handle.hwnd, module, nat))
             ELSE IF window_handle.tag = "Wayland" /\ display_handle.tag = "Wayland"
             THEN Dispatch("create_wayland_surface",
                      create_wayland_surface(window_handle.surface,
                                             display_handle.display, nat))
             ELSE IF window_handle.tag = "Xcb" /\ display_handle.tag = "Xcb"
             THEN Dispatch("create_xcb_surface",
                      create_xcb_surface(window_handle.window,
                                         display_handle.connection, nat))
             ELSE IF window_handle.tag = "Xlib"
             THEN Dispatch("create_xlib_surface",
                      create_xlib_surface(window_handle.window, nat))
             ELSE CallTrace(TRUE, ErrUnsupported, <<>>, 0, <<>>)

(* Variant: the Xlib arm puts the display pointer into the create-info. *)
create_surface_XlibForwardsDisplay(win, avail, module, nat) ==
    IF ~avail.window_handle \/ ~avail.display_handle
    THEN CallTrace(FALSE, ErrHandle, <<>>, 0, <<>>)
    ELSE LET window_handle == win.window_handle
             display_handle == win.display_handle
         IN  IF window_handle.tag = "Win32" /\ display_handle.tag = "Windows"
             THEN Dispatch("create_win32_surface",
                      create_win32_surface(window_handle.hinstance,
                                           window_handle.hwnd, module, nat))
             ELSE IF window_handle.tag = "Wayland" /\ display_handle.tag = "Wayland"
             THEN Dispatch("create_wayland_surface",
                      create_wayland_surface(window_handle.surface,
                                             display_handle.display, nat))
             ELSE IF window_handle.tag = "Xcb" /\ display_handle.tag = "Xcb"
             THEN Dispatch("create_xcb_surface",
                      create_xcb_surface(window_handle.window,
                                         display_handle.connection, nat))
             ELSE IF window_handle.tag = "Xlib" /\ display_handle.tag = "Xlib"
             THEN LET t == create_xlib_surface(window_handle.window, nat)
                      dpy == IF display_handle.display.some
                             THEN display_handle.display.v ELSE NULL
                  IN  Dispatch("create_xlib_surface",
                          RoutineTrace(t.result, t.lookups,
                              <<[fn |-> "vkCreateXlibSurfaceKHR",
                                 window |-> window_handle.window,
                                 dpy |-> dpy]>>))
             ELSE CallTrace(TRUE, ErrUnsupported, <<>>, 0, <<>>)

(* avail.window_handle / avail.display_handle: whether the `?` on the      *)
(* corresponding handle getter passes.                                     *)
create_surface(win, avail, module, nat) ==
    IF ~avail.window_handle \/ ~avail.display_handle
    THEN CallTrace(FALSE, ErrHandle, <<>>, 0, <<>>)
    ELSE LET window_handle == win.window_handle
             display_handle == win.display_handle
         IN  IF window_handle.tag = "Win32" /\ display_handle.tag = "Windows"
             THEN Dispatch("create_win32_surface",
                      create_win32_surface(window_handle.hinstance,
                                           window_handle.hwnd, module, nat))
             ELSE IF window_handle.tag = "Wayland" /\ display_handle.tag = "Wayland"
             THEN Dispatch("create_wayland_surface",
                      create_wayland_surface(window_handle.surface,
                                             display_handle.display, nat))
             ELSE IF window_handle.tag = "Xcb" /\ display_handle.tag = "Xcb"
             THEN Dispatch("create_xcb_surface",
                      create_xcb_surface(window_handle.window,
                                         display_handle.connection, nat))
             ELSE IF window_handle.tag = "Xlib" /\ display_handle.tag = "Xlib"
             THEN Dispatch("create_xlib_surface",
                      create_xlib_surface(window_handle.window, nat))
             ELSE CallTrace(TRUE, ErrUnsupported, <<>>, 0, <<>>)

(* Variant: the Xlib arm is missing. *)
get_required_instance_extensions_NoXlibArm(win, avail) ==
    IF ~avail.window_handle \/ ~avail.display_handle
    THEN CallTrace(FALSE, ErrHandle, <<>>, 0, <<>>)
    ELSE LET window_handle == win.window_handle
             display_handle == win.display_handle
             Returns(exts) == CallTrace(TRUE, OkExtensions(exts), <<>>, 0, <<>>)
         IN  IF window_handle.tag = "Win32" /\ display_handle.tag = "Windows"
             THEN Returns(<<Surface_name, Win32Surface_name>>)
             ELSE IF window_handle.tag = "Wayland" /\ display_handle.tag = "Wayland"
             THEN Returns(<<Surface_name, WaylandSurface_name>>)
             ELSE IF window_handle.tag = "Xcb" /\ display_handle.tag = "Xcb"
             THEN Returns(<<Surface_name, XcbSurface_name>>)
             ELSE CallTrace(TRUE, ErrUnsupported, <<>>, 0, <<>>)

(* Variant: the Xcb arm was copied from the Xlib arm and kept its name. *)
get_required_instance_extensions_XcbCopyPaste(win, avail) ==
    IF ~avail.window_handle \/ ~avail.display_handle
    THEN CallTrace(FALSE, ErrHandle, <<>>, 0, <<>>)
    ELSE LET window_handle == win.window_handle
             display_handle == win.display_handle
             Returns(exts) == CallTrace(TRUE, OkExtensions(exts), <<>>, 0, <<>>)
         IN  IF window_handle.tag = "Win32" /\ display_handle.tag = "Windows"
             THEN Returns(<<Surface_name, Win32Surface_name>>)
             ELSE IF window_handle.tag = "Wayland" /\ display_handle.tag = "Wayland"
             THEN Returns(<<Surface_name, WaylandSurface_name>>)
             ELSE IF window_handle.tag = "Xcb" /\ display_handle.tag = "Xcb"
             THEN Returns(<<Surface_name, XlibSurface_name>>)
             ELSE IF window_handle.tag = "Xlib" /\ display_handle.tag = "Xlib"
             THEN Returns(<<Surface_name, XlibSurface_name>>)
             ELSE CallTrace(TRUE, ErrUnsupported, <<>>, 0, <<>>)

(* Variant: the list is built in a buffer that outlives the call and is    *)
(* not cleared, so a call made right after another returns both lists.     *)
get_required_instance_extensions_StaleBuffer(win, avail) ==
    IF ~avail.window_handle \/ ~avail.display_handle
    THEN CallTrace(FALSE, ErrHandle, <<>>, 0, <<>>)
    ELSE LET window_handle == win.window_handle
             display_handle == win.display_handle
             stale == IF call.fn = "get_required_instance_extensions"
                         /\ Len(call.result.extensions) = 2
                      THEN call.result.extensions ELSE <<>>
             Returns(exts) ==
                 CallTrace(TRUE, OkExtensions(stale \o exts), <<>>, 0, <<>>)
         IN  IF window_handle.tag = "Win32" /\ display_handle.tag = "Windows"
             THEN Returns(<<Surface_name, Win32Surface_name>>)
             ELSE IF window_handle.tag = "Wayland" /\ display_handle.tag = "Wayland"
             THEN Returns(<<Surface_name, WaylandSurface_name>>)
             ELSE IF window_handle.tag = "Xcb" /\ display_handle.tag = "Xcb"
             THEN Returns(<<Surface_name, XcbSurface_name>>)
             ELSE IF window_handle.tag = "Xlib" /\ display_handle.tag = "Xlib"
             THEN Returns(<<Surface_name, XlibSurface_name>>)
             ELSE CallTrace(TRUE, ErrUnsupported, <<>>, 0, <<>>)

get_required_instance_extensions(win, avail) ==
    IF ~avail.window_handle \/ ~avail.display_handle
    THEN CallTrace(FALSE, ErrHandle, <<>>, 0, <<>>)
    ELSE LET window_handle == win.window_handle
             display_handle == win.display_handle
             Returns(exts) == CallTrace(TRUE, OkExtensions(exts), <<>>, 0, <<>>)
         IN  IF window_handle.tag = "Win32" /\ display_handle.tag = "Windows"
             THEN Returns(<<Surface_name, Win32Surface_name>>)
             ELSE IF window_handle.tag = "Wayland" /\ display_handle.tag = "Wayland"
             THEN Returns(<<Surface_name, WaylandSurface_name>>)
             ELSE IF window_handle.tag = "Xcb" /\ display_handle.tag = "Xcb"
             THEN Returns(<<Surface_name, XcbSurface_name>>)
             ELSE IF window_handle.tag = "Xlib" /\ display_handle.tag = "Xlib"
             THEN Returns(<<Surface_name, XlibSurface_name>>)
             ELSE CallTrace(TRUE, ErrUnsupported, <<>>, 0, <<>>)

---------------------------------------------------------------------------
(* State *)

(* How the two handle getters answer one call: window_handle() is asked    *)
(* first, and display_handle() only if it returned a handle.               *)
Availability ==
    {[window_handle |-> TRUE, display_handle |-> TRUE],
     [window_handle |-> FALSE, display_handle |-> FALSE],
     [window_handle |-> TRUE, display_handle |-> FALSE]}

(* What the driver may answer in a call whose handle getters answer        *)
(* `avail`: nothing is asked of it when a getter fails.                     *)
DriverAnswers(avail) ==
    IF avail.window_handle /\ avail.display_handle
    THEN NativeOutcomes(surfaces)
    ELSE {NotCalled}

(* The handle GetModuleHandleA(null) returns: the one of this process *)
ProcessModule == MaxPtr + 1
NoCall(win) ==
    [fn |-> "none", window |-> win, fetched |-> FALSE, result |-> NoResult,
     routines |-> <<>>, lookups |-> 0, native |-> <<>>, reported |-> <<>>]

(* The record kept of a call: the window it was made on, its trace, and    *)
(* what each native call it made reported back (`nat`, once per call).     *)
Called(fn, win, t, nat) ==
    [fn |-> fn, window |-> win, fetched |-> t.fetched, result |-> t.result,
     routines |-> t.routines, lookups |-> t.lookups, native |-> t.native,
     reported |-> [i \in 1..Len(t.native) |-> nat]]

NoInstance == [created |-> FALSE, enabled |-> <<>>]

Init ==
    /\ target \in {"windows", "other"}
    /\ window \in Windows
    /\ surfaces = {}
    /\ halted = FALSE
    /\ call = NoCall(window)
    /\ memo = {}
    /\ pc = "start"
    /\ required_extensions = <<>>
    /\ instance = NoInstance
    /\ log = <<>>

(* The driver's side of a call: a surface the native call returned exists. *)
Allocated(t) ==
    IF t.native # <<>> /\ t.result.status = "Ok"
    THEN surfaces \cup {t.result.surface}
    ELSE surfaces

appVars == <<pc, required_extensions, instance, log>>

---------------------------------------------------------------------------
(* The two public functions called in any order on any of the windows *)

CallGetRequiredInstanceExtensions ==
    /\ ~halted
    /\ \E win \in {window} \cup OtherWindows, avail \in Availability :
         LET t == get_required_instance_extensions(win, avail)
         IN  /\ call' = Called("get_required_instance_extensions", win, t,
                               NotCalled)
             /\ surfaces' = Allocated(t)
             /\ halted' = (t.result.status = "Panic")
             /\ memo' = IF t.fetched /\ win = window
                        THEN memo \cup {[window |-> win,
                                         allocated |-> (surfaces # {}),
                                         result |-> t.result]}
                        ELSE memo
    /\ UNCHANGED <<target, window, appVars>>

CallCreateSurface ==
    /\ ~halted
    /\ \E win \in {window} \cup OtherWindows, avail \in Availability :
       \E nat \in DriverAnswers(avail) :
         LET t == create_surface(win, avail, ProcessModule, nat)
         IN  /\ call' = Called("create_surface", win, t, nat)
             /\ surfaces' = Allocated(t)
             /\ halted' = (t.result.status = "Panic")
    /\ UNCHANGED <<target, window, memo, appVars>>

Next ==
    \/ CallGetRequiredInstanceExtensions
    \/ CallCreateSurface

Spec == Init /\ [][Next]_vars

---------------------------------------------------------------------------
(* main.rs: App::new, one action per fallible step *)

(* Variant: the count passed to the instance is one short. *)
EnabledExtensions_CountOffByOne(exts) ==
    LET required_extensions_ptrs == [i \in 1..Len(exts) |-> exts[i]]
        enabled_extension_count == Len(exts) - 1
    IN  SubSeq(required_extensions_ptrs, 1, enabled_extension_count)

(* vk::InstanceCreateInfo: enabled_extension_count names from the pointer  *)
(* array built from required_extensions.                                   *)
EnabledExtensions(exts) ==
    LET required_extensions_ptrs == [i \in 1..Len(exts) |-> exts[i]]
        enabled_extension_count == Len(exts)
    IN  SubSeq(required_extensions_ptrs, 1, enabled_extension_count)

Event(op, exts) == [op |-> op, exts |-> exts]

platformVars == <<target, window, surfaces, halted, call, memo>>

(* let entry = ash::Entry::load()?; *)
AppLoadEntry ==
    /\ pc = "start"
    /\ \E ok \in BOOLEAN : pc' = IF ok THEN "event_loop" ELSE "failed"
    /\ UNCHANGED <<platformVars, required_extensions, instance, log>>

(* let event_loop = EventLoop::new()?; *)
AppNewEventLoop ==
    /\ pc = "event_loop"
    /\ \E ok \in BOOLEAN : pc' = IF ok THEN "build_window" ELSE "failed"
    /\ UNCHANGED <<platformVars, required_extensions, instance, log>>

(* let window = WindowBuilder::new().with_title("Hello!").build(&event_loop)?; *)
AppBuildWindow ==
    /\ pc = "build_window"
    /\ \E ok \in BOOLEAN : pc' = IF ok THEN "required_extensions" ELSE "failed"
    /\ UNCHANGED <<platformVars, required_extensions, instance, log>>

(* let required_extensions = get_required_instance_extensions(&window)?; *)
AppGetRequiredInstanceExtensions ==
    /\ pc = "required_extensions"
    /\ \E avail \in Availability :
         LET t == get_required_instance_extensions(window, avail)
         IN  /\ call' = Called("get_required_instance_extensions", window, t,
                               NotCalled)
             /\ surfaces' = Allocated(t)
             /\ halted' = (t.result.status = "Panic")
             /\ log' = Append(log, Event("get_required_instance_extensions",
                                         t.result.extensions))
             /\ IF t.result.status = "Ok"
                THEN /\ required_extensions' = t.result.extensions
                     /\ pc' = "create_instance"
                ELSE /\ required_extensions' = required_extensions
                     /\ pc' = IF t.result.status = "Panic" THEN "panicked"
                              ELSE "failed"
    /\ UNCHANGED <<target, window, memo, instance>>

(* let instance = entry.create_instance(&vk::InstanceCreateInfo {..}, None)?; *)
AppCreateInstance ==
    /\ pc = "create_instance"
    /\ log' = Append(log, Event("create_instance",
                                EnabledExtensions(required_extensions)))
    /\ \E ok \in BOOLEAN :
         IF ok
         THEN /\ instance' = [created |-> TRUE,
                              enabled |-> EnabledExtensions(required_extensions)]
              /\ pc' = "physical_device"
         ELSE /\ instance' = instance
              /\ pc' = "failed"
    /\ UNCHANGED <<platformVars, required_extensions>>

(* instance.enumerate_physical_devices()?.get(0).ok_or(anyhow!("No GPU"))? *)
AppSelectPhysicalDevice ==
    /\ pc = "physical_device"
    /\ \E outcome \in {"enumerate_failed", "no_gpu", "first_device"} :
         pc' = IF outcome = "first_device" THEN "create_surface" ELSE "failed"
    /\ UNCHANGED <<platformVars, required_extensions, instance, log>>

(* let surface = create_surface(&window, &entry, &instance)?; Ok(Self {..}) *)
AppCreateSurface ==
    /\ pc = "create_surface"
    /\ \E avail \in Availability :
       \E nat \in DriverAnswers(avail) :
         LET t == create_surface(window, avail, ProcessModule, nat)
         IN  /\ call' = Called("create_surface", window, t, nat)
             /\ surfaces' = Allocated(t)
             /\ halted' = (t.result.status = "Panic")
             /\ log' = Append(log, Event("create_surface", <<>>))
             /\ pc' = CASE t.result.status = "Ok" -> "done"
                        [] t.result.status = "Panic" -> "panicked"
                        [] OTHER -> "failed"
    /\ UNCHANGED <<target, window, memo, required_extensions, instance>>

NextApp ==
    \/ AppLoadEntry
    \/ AppNewEventLoop
    \/ AppBuildWindow
    \/ AppGetRequiredInstanceExtensions
    \/ AppCreateInstance
    \/ AppSelectPhysicalDevice
    \/ AppCreateSurface

SpecApp == Init /\ [][NextApp]_vars

---------------------------------------------------------------------------
(* Vocabulary of the properties, stated without the code's match arms *)

WindowFamily(tag) ==
    CASE tag = "Win32" -> "Windows"
      [] tag = "WinRt" -> "Windows"
      [] OTHER -> tag

DisplayFamily(tag) == tag

IsPair(win, wtag, dtag) ==
    win.window_handle.tag = wtag /\ win.display_handle.tag = dtag

Backend(win) ==
    CASE IsPair(win, "Win32", "Windows") -> "Win32"
      [] IsPair(win, "Wayland", "Wayland") -> "Wayland"
      [] IsPair(win, "Xcb", "Xcb") -> "Xcb"
      [] IsPair(win, "Xlib", "Xlib") -> "Xlib"
      [] OTHER -> "none"

Capability(backend) ==
    CASE backend = "Win32" -> "VK_KHR_win32_surface"
      [] backend = "Wayland" -> "VK_KHR_wayland_surface"
      [] backend = "Xcb" -> "VK_KHR_xcb_surface"
      [] backend = "Xlib" -> "VK_KHR_xlib_surface"
      [] OTHER -> "none"

Routine(backend) ==
    CASE backend = "Win32" -> "create_win32_surface"
      [] backend = "Wayland" -> "create_wayland_surface"
      [] backend = "Xcb" -> "create_xcb_surface"
      [] backend = "Xlib" -> "create_xlib_surface"
      [] OTHER -> "none"

Advertised == call.fn = "get_required_instance_extensions" /\ call.fetched
Constructed == call.fn = "create_surface" /\ call.fetched

---------------------------------------------------------------------------
(* C1: for one handle pair, get_required_instance_extensions returns a     *)
(* capability list if and only if create_surface enters a backend routine  *)
(* (does not fail with Unsupported), whichever of the two is called first. *)
C1_SupportednessAgrees ==
    /\ [](Constructed =>
            /\ (call.routines # <<>>) <=> (call.result # ErrUnsupported)
            /\ \A m \in memo :
                 m.window = call.window =>
                    ((m.result.status = "Ok") <=> (call.routines # <<>>)))
    /\ [][(Constructed /\ call'.fn = "get_required_instance_extensions"
                       /\ call'.fetched /\ call'.window = call.window)
            => ((call'.result.status = "Ok") <=> (call.routines # <<>>))]_vars

C1_Witness ==
    /\ Constructed /\ call.routines # <<>>
    /\ \E m \in memo : m.window = call.window
    /\ Backend(call.window) = "Xlib"

(* C2: a pair whose window and display tags are of different families      *)
(* fails with Unsupported in both functions and enters no backend routine. *)
C2_MixedFamiliesUnsupported ==
    (/\ call.fn # "none" /\ call.fetched
     /\ WindowFamily(call.window.window_handle.tag)
            # DisplayFamily(call.window.display_handle.tag))
    => /\ call.result = ErrUnsupported
       /\ call.routines = <<>>
       /\ call.native = <<>>

C2_Witness ==
    /\ Constructed
    /\ IsPair(call.window, "Xcb", "Wayland")
    /\ call.result = ErrUnsupported

(* C3: on a supported pair the advertised list is VK_KHR_surface followed  *)
(* by exactly the one capability of the pair's backend.                    *)
C3_ExtensionsOfBackend ==
    (Advertised /\ Backend(call.window) # "none")
    => /\ call.result.status = "Ok"
       /\ call.result.extensions
              = <<"VK_KHR_surface", Capability(Backend(call.window))>>

C3_Witness ==
    /\ Advertised
    /\ Backend(call.window) = "Xcb"
    /\ call.result.status = "Ok"

(* C5: one create_surface call looks the instance handle up exactly once   *)
(* for a Win32/Windows pair whose window handle carries no hinstance, and  *)
(* never otherwise.                                                        *)
C5_FallbackLookupCount ==
    (call.fn = "create_surface")
    => call.lookups = IF /\ call.fetched
                         /\ Backend(call.window) = "Win32"
                         /\ ~call.window.window_handle.hinstance.some
                      THEN 1 ELSE 0

C5_Witness ==
    /\ Constructed
    /\ Backend(call.window) = "Win32"
    /\ ~call.window.window_handle.hinstance.some
    /\ call.lookups = 1
    /\ call.result.status = "Ok"

(* C6: for an Xlib/Xlib pair the Xlib routine runs and its native call     *)
(* gets the window identifier only; the display handle is never forwarded. *)
C6_XlibDisplayNotForwarded ==
    (Constructed /\ Backend(call.window) = "Xlib")
    => /\ call.routines = <<"create_xlib_surface">>
       /\ Len(call.native) = 1
       /\ call.native[1].fn = "vkCreateXlibSurfaceKHR"
       /\ call.native[1].window = call.window.window_handle.window
       /\ call.native[1].dpy = NULL

C6_Witness ==
    /\ Constructed
    /\ Backend(call.window) = "Xlib"
    /\ call.window.display_handle.display.some
    /\ Len(call.native) = 1

(* C7: create_surface makes at most one native call; it returns exactly    *)
(* the handle that call produced, or fails with exactly the code that call *)
(* reported; without a successful native call it returns no handle.        *)
C7_NativeOutcomePropagated ==
    (call.fn = "create_surface")
    => /\ Len(call.native) <= 1
       /\ \A i \in 1..Len(call.native) :
            IF call.reported[i].ok
            THEN call.result = OkSurface(call.reported[i].surface)
            ELSE call.result = ErrVk(call.reported[i].code)
       /\ call.native = <<>> =>
            (call.result.status # "Ok" /\ call.result.surface = 0)

C7_Witness ==
    /\ Constructed
    /\ Backend(call.window) = "Xcb"
    /\ Len(call.native) = 1
    /\ ~call.reported[1].ok
    /\ call.result = ErrVk(-2)

(* C8: off Windows, create_surface on a Win32/Windows pair without an      *)
(* hinstance halts the process before any native call; nothing is returned *)
(* and no surface exists because of it.                                    *)
C8_FallbackHaltsOffWindows ==
    (/\ Constructed
     /\ target = "other"
     /\ Backend(call.window) = "Win32"
     /\ ~call.window.window_handle.hinstance.some)
    => /\ call.result = Panicked
       /\ call.result.surface = 0
       /\ halted
       /\ call.native = <<>>

C8_Witness ==
    /\ Constructed
    /\ target = "other"
    /\ Backend(call.window) = "Win32"
    /\ ~call.window.window_handle.hinstance.some
    /\ halted

C10_DispatchForwardsFields ==
    Constructed =>
       LET b == Backend(call.window)
           wh == call.window.window_handle
           dh == call.window.display_handle
           n == call.native[1]
       IN  /\ b = "none" => (call.routines = <<>> /\ call.native = <<>>)
           /\ b # "none" => call.routines = <<Routine(b)>>
           /\ (b = "Wayland") =>
                /\ Len(call.native) = 1
                /\ n.fn = "vkCreateWaylandSurfaceKHR"
                /\ n.surface = wh.surface
                /\ n.display = dh.display
           /\ (b = "Xcb") =>
                /\ Len(call.native) = 1
                /\ n.fn = "vkCreateXcbSurfaceKHR"
                /\ n.window = wh.window
                /\ n.connection = IF dh.connection.some THEN dh.connection.v
                                  ELSE 0
           /\ (b = "Xlib") =>
                /\ Len(call.native) = 1
                /\ n.fn = "vkCreateXlibSurfaceKHR"
                /\ n.window = wh.window
           /\ (b = "Win32" /\ call.native # <<>>) =>
                /\ n.fn = "vkCreateWin32SurfaceKHR"
                /\ n.hwnd = wh.hwnd
                /\ wh.hinstance.some => n.hinstance = wh.hinstance.v

C10_Witness ==
    /\ Constructed
    /\ Backend(call.window) = "Xcb"
    /\ ~call.window.display_handle.connection.some
    /\ call.routines = <<"create_xcb_surface">>
    /\ call.native[1].connection = 0

---------------------------------------------------------------------------
(* Properties of the bootstrap *)

Positions(op) == {i \in 1..Len(log) : log[i].op = op}

(* C4: in App::new the advertiser is called before the instance is         *)
(* created, the instance is created with exactly the list it returned,     *)
(* create_surface is called only on a created instance, so a backend       *)
(* routine only ever runs with its capability enabled; and a failed        *)
(* advertiser call means no instance and no create_surface call.           *)
C4_BootstrapOrder ==
    /\ \A i \in Positions("create_instance") :
         /\ i = 2
         /\ log[1].op = "get_required_instance_extensions"
         /\ log[i].exts = log[1].exts
    /\ instance.created =>
         /\ Positions("create_instance") # {}
         /\ instance.enabled = log[1].exts
    /\ \A i \in Positions("create_surface") :
         /\ instance.created
         /\ i = 3
    /\ (call.fn = "create_surface" /\ call.routines # <<>>) =>
         /\ call.routines = <<Routine(Backend(call.window))>>
         /\ \E k \in 1..Len(instance.enabled) :
              instance.enabled[k] = Capability(Backend(call.window))
    /\ (call.fn = "get_required_instance_extensions"
            /\ call.result.status # "Ok") =>
         /\ ~instance.created
         /\ Positions("create_instance") = {}
         /\ Positions("create_surface") = {}
         /\ pc = "failed"

C4_Witness ==
    /\ pc = "done"
    /\ call.fn = "create_surface"
    /\ call.routines = <<"create_wayland_surface">>
    /\ instance.enabled = <<"VK_KHR_surface", "VK_KHR_wayland_surface">>

============================================================================
